---------------------------- MODULE Spec2Model ----------------------------
(***************************************************************************)
(* Model of main.py: the three request handlers /stocks, /news and /tweets *)
(* of the Market Integrated Backend, each a synchronous transformation     *)
(* around one call to an external provider.                                *)
(*                                                                         *)
(* Encoding of Python values:                                              *)
(*   - None is the empty tuple <<>> and a present value x is <<x>>;        *)
(*   - a str that the code inspects (link, source, the digits of an id) is *)
(*     a sequence of one-character strings; "^2" stands for the single     *)
(*     character U+00B2, for which str.isdigit() is true and int() raises; *)
(*   - a date string "Y-M-D" is the record [y, m, d] of its three fields;  *)
(*   - a datetime.date is its proleptic Gregorian ordinal (date.toordinal);*)
(*   - prices are integers (cents) and a relative variation is the exact   *)
(*     fraction <<numerator, denominator>>;                                *)
(*   - an int wider than TLC's integers is kept in three limbs, see IntOf. *)
(***************************************************************************)
EXTENDS Integers, Sequences, FiniteSets

VARIABLES
  pc,        \* "idle", "awaiting" (the outbound call is in flight) or "done"
  req,       \* the inbound request: endpoint, keyword or symbol, date string
  calls,     \* outbound provider calls made for the request so far
  prov,      \* what the outbound call returned (None before it returns)
  resp,      \* the response sent to the caller (None before it is sent)
  link,      \* input of the identifier extraction checked on its own
  tweet_id   \* its result

vars == <<pc, req, calls, prov, resp, link, tweet_id>>

None == <<>>
Some(x) == <<x>>

\* ------------------------------------------------------------- bounds

\* Longest price series the stock provider returns.
MaxSeries == 3
\* Longest article list the news provider returns.
MaxArticles == 2
\* Longest organic result list the search provider returns.
MaxOrganic == 2
\* Number of pieces a generated link is assembled from.
MaxPieces == 5

\* ------------------------------------------------- datetime (library)

IsLeap(y) == y % 4 = 0 /\ (y % 100 /= 0 \/ y % 400 = 0)

DaysInMonth(y, m) ==
  IF m = 2 THEN (IF IsLeap(y) THEN 29 ELSE 28)
  ELSE IF m \in {4, 6, 9, 11} THEN 30 ELSE 31

DaysBeforeYear(y) ==
  (y - 1) * 365 + ((y - 1) \div 4) - ((y - 1) \div 100) + ((y - 1) \div 400)

RECURSIVE DaysBeforeMonth(_, _)
DaysBeforeMonth(y, m) ==
  IF m = 1 THEN 0 ELSE DaysBeforeMonth(y, m - 1) + DaysInMonth(y, m - 1)

\* date(y, m, d).toordinal()
DateOrdinal(y, m, d) == DaysBeforeYear(y) + DaysBeforeMonth(y, m) + d

RECURSIVE MonthOf(_, _, _)
MonthOf(y, m, n) ==
  IF n < DaysInMonth(y, m) THEN <<m, n + 1>>
  ELSE MonthOf(y, m + 1, n - DaysInMonth(y, m))

\* date.fromordinal(n).isoformat(), as the record of its fields
IsoFormat(n) ==
  LET n0 == n - 1
      n400 == n0 \div 146097
      r400 == n0 % 146097
      n100 == r400 \div 36524
      r100 == r400 % 36524
      n4 == r100 \div 1461
      r4 == r100 % 1461
      n1 == r4 \div 365
      r1 == r4 % 365
      year == n400 * 400 + n100 * 100 + n4 * 4 + n1 + 1
  IN IF n1 = 4 \/ n100 = 4
       THEN [y |-> year - 1, m |-> 12, d |-> 31]
       ELSE LET md == MonthOf(year, 1, r1)
            IN [y |-> year, m |-> md[1], d |-> md[2]]

\* datetime.strptime(date, "%Y-%m-%d") raises ValueError
StrptimeFails(s) ==
  ~ (/\ s.y \in 1..9999
     /\ s.m \in 1..12
     /\ s.d \in 1..DaysInMonth(s.y, s.m))

\* datetime.strptime(date, "%Y-%m-%d").date(), for a string that parses
Strptime(s) == DateOrdinal(s.y, s.m, s.d)


\* ------------------------------------------------------------ responses

\* raise HTTPException(status_code, detail), and an exception no handler
\* catches (the framework answers 500 Internal Server Error)
HttpError(status, detail) == [status |-> status, detail |-> detail, body |-> None]

\* a returned response model
HttpOk(body) == [status |-> 200, detail |-> "", body |-> Some(body)]

\* -------------------------------------------------------------- /stocks

\* data.sort_index(): rows ascending by date (insertion sort, stable)
RECURSIVE InsertRow(_, _)
InsertRow(sorted, row) ==
  IF sorted = <<>> THEN <<row>>
  ELSE IF row.date < Head(sorted).date THEN <<row>> \o sorted
  ELSE <<Head(sorted)>> \o InsertRow(Tail(sorted), row)

RECURSIVE SortIndex(_)
SortIndex(data) ==
  IF data = <<>> THEN <<>>
  ELSE InsertRow(SortIndex(SubSeq(data, 1, Len(data) - 1)), data[Len(data)])

\* the comparison of the two scans: idx.date() <= ref
RowMatches_StrictlyBefore(row_date, ref) == row_date < ref
RowMatches(row_date, ref) == row_date <= ref

\* for idx in reversed(data.index): if idx.date() <= ref: ...; break
\* The position of the row found, scanning down from position i; 0 is None.
RECURSIVE ScanReversed(_, _, _)
ScanReversed(data, i, ref) ==
  IF i = 0 THEN 0
  ELSE IF RowMatches(data[i].date, ref) THEN i
  ELSE ScanReversed(data, i - 1, ref)

\* ref_idx of get_close_at(days_delta), a closure over data and target_date:
\* the position of the reference row, 0 for None
ref_idx_Forward(data, target_date, days_delta) ==
  ScanReversed(data, Len(data), target_date + days_delta)
ref_idx(data, target_date, days_delta) ==
  LET ref_date == target_date - days_delta
  IN ScanReversed(data, Len(data), ref_date)

\* get_close_at(days_delta)
get_close_at(data, target_date, days_delta) ==
  LET i == ref_idx(data, target_date, days_delta)
  IN IF i = 0 THEN None ELSE Some(data[i].close)

\* var_rel(curr, past); the quotient is kept as the fraction <<num, den>>
var_rel_NoZeroCheck(curr, past) ==
  IF curr = None \/ past = None THEN None
  ELSE Some(<<curr[1] - past[1], past[1]>>)
var_rel(curr, past) ==
  IF curr = None \/ past = None \/ past = Some(0) THEN None
  ELSE Some(<<curr[1] - past[1], past[1]>>)

\* the date field of the StockResponse: target_date.isoformat()
ResponseDate(target_date) == IsoFormat(target_date)

\* get_stock after the date has parsed and yf.download has returned `raw`
StockResult(symbol, target_date, raw) ==
  IF raw = <<>>
    THEN HttpError(404, "No se encontraron datos para ese simbolo/fecha.")
    ELSE
      LET data == SortIndex(raw)
          target_idx == ScanReversed(data, Len(data), target_date)
      IN IF target_idx = 0
           THEN HttpError(404, "No hay datos previos a esa fecha.")
           ELSE
             LET row == data[target_idx]
                 close_today == Some(row.close)
                 close_yesterday == get_close_at(data, target_date, 1)
                 close_week == get_close_at(data, target_date, 7)
                 close_month == get_close_at(data, target_date, 30)
             IN HttpOk([symbol |-> symbol,
                        date |-> ResponseDate(target_date),
                        close |-> row.close,
                        open |-> Some(row.open),
                        high |-> Some(row.high),
                        low |-> Some(row.low),
                        volume |-> Some(row.volume),
                        var_day |-> var_rel(close_today, close_yesterday),
                        var_week |-> var_rel(close_today, close_week),
                        var_month |-> var_rel(close_today, close_month)])

\* ---------------------------------------------------------------- /news

\* a.get(key, default) on a raw article whose field may be missing
Get(field, default) == IF field = None THEN default ELSE field[1]

\* the NewsItem built from one raw article
NewsItemOf(a) ==
  [title |-> Get(a.title, ""),
   url |-> Get(a.url, ""),
   source |-> a.sourceCountry,
   language |-> a.language,
   datetime |-> a.seendate,
   snippet |-> a.title]

\* for a in raw_articles: articles.append(NewsItem(...))
NewsItems(raw_articles) ==
  [i \in 1..Len(raw_articles) |-> NewsItemOf(raw_articles[i])]

\* resp.status_code != 200
UpstreamFailed_Only5xx(status_code) == status_code >= 500
UpstreamFailed(status_code) == status_code /= 200

\* get_news after the date has parsed, given what requests.get did: it raised
\* (timeout, connection error: nothing in the handler catches it, the framework
\* answers 500) or it returned a response
NewsResult(keyword, date, outcome) ==
  IF outcome.raised
    THEN HttpError(500, "Internal Server Error")
    ELSE IF UpstreamFailed(outcome.status_code)
      THEN HttpError(502, "Error consultando GDELT.")
      ELSE LET raw_articles == Get(outcome.json, <<>>)
           IN HttpOk([keyword |-> keyword,
                      date |-> date,
                      articles |-> NewsItems(raw_articles)])

\* -------------------------------------------------------------- /tweets

\* the module's credential: a non-empty literal (its text is not reproduced)
SERPAPI_API_KEY == "<64 hexadecimal characters>"

\* the text literals the handler looks for
XCom == <<"x", ".", "c", "o", "m">>
TwitterCom == <<"t", "w", "i", "t", "t", "e", "r", ".", "c", "o", "m">>
StatusSegment == <<"s", "t", "a", "t", "u", "s">>

\* needle in haystack, on strings
Contains(needle, hay) ==
  \E i \in 1..(Len(hay) - Len(needle) + 1) :
    SubSeq(hay, i, i + Len(needle) - 1) = needle

\* the position of the first sep in s, 0 when there is none
FirstIndex(s, sep) ==
  IF \E i \in 1..Len(s) : s[i] = sep
    THEN CHOOSE i \in 1..Len(s) : s[i] = sep /\ \A j \in 1..(i - 1) : s[j] /= sep
    ELSE 0

\* s.split(sep): the list of the segments between separators
RECURSIVE Split(_, _)
Split(s, sep) ==
  LET i == FirstIndex(s, sep)
  IN IF i = 0 THEN <<s>>
     ELSE <<SubSeq(s, 1, i - 1)>> \o Split(SubSeq(s, i + 1, Len(s)), sep)

\* characters c with c.isdigit(); "^2" (U+00B2) is one that int() rejects
DecimalDigits == <<"0", "1", "2", "3", "4", "5", "6", "7", "8", "9">>
IsDigitChar(c) == c = "^2" \/ \E i \in 1..10 : DecimalDigits[i] = c
IsDecimalChar(c) == \E i \in 1..10 : DecimalDigits[i] = c
DigitValue(c) == (CHOOSE i \in 1..10 : DecimalDigits[i] = c) - 1

\* s.isdigit(): non-empty and every character a digit
IsDigit(s) == s /= <<>> /\ \A i \in 1..Len(s) : IsDigitChar(s[i])

\* int(s) raises ValueError on an isdigit() string that is not decimal
IntRaises(s) == \E i \in 1..Len(s) : ~ IsDecimalChar(s[i])

MsPerDay == 24 * 60 * 60 * 1000

\* the shift of tweet_id >> 22
SnowflakeShift == 22
\* twitter_epoch_ms = 1288834974657 = EpochDays * MsPerDay + EpochMsOfDay
EpochDays == 14917
EpochMsOfDay == 6174657

\* the top limb of an int saturates here: every value this large is past
\* datetime.max once shifted, and tweet_id_to_datetime treats them alike
DaysLimbMax == DateOrdinal(9999, 12, 31)

Min(a, b) == IF a < b THEN a ELSE b

\* int(s) of a decimal string. Python's int is unbounded; the value is kept in
\* three limbs, value = (days * MsPerDay + ms) * 2^SnowflakeShift + lo, with
\* lo < 2^SnowflakeShift and ms < MsPerDay, built digit by digit.
RECURSIVE IntOf(_)
IntOf(s) ==
  IF s = <<>> THEN [days |-> 0, ms |-> 0, lo |-> 0]
  ELSE LET v == IntOf(SubSeq(s, 1, Len(s) - 1))
           lo10 == v.lo * 10 + DigitValue(s[Len(s)])
           ms10 == v.ms * 10 + (lo10 \div (2 ^ SnowflakeShift))
       IN [days |-> Min(v.days * 10 + (ms10 \div MsPerDay), DaysLimbMax),
           ms |-> ms10 % MsPerDay,
           lo |-> lo10 % (2 ^ SnowflakeShift)]

\* the identifier of a link: lines 286-295, None when there is none
ExtractTweetId_NoQueryStrip(l) ==
  LET parts == Split(l, "/")
  IN IF \E i \in 1..Len(parts) : parts[i] = StatusSegment
       THEN LET idx == CHOOSE i \in 1..Len(parts) :
                         /\ parts[i] = StatusSegment
                         /\ \A j \in 1..(i - 1) : parts[j] /= StatusSegment
            IN IF idx + 1 <= Len(parts)
                 THEN LET tweet_id_str == parts[idx + 1]
                      IN IF IsDigit(tweet_id_str) /\ ~ IntRaises(tweet_id_str)
                           THEN Some(IntOf(tweet_id_str))
                           ELSE None
                 ELSE None
       ELSE None
ExtractTweetId(l) ==
  LET parts == Split(l, "/")
  IN IF \E i \in 1..Len(parts) : parts[i] = StatusSegment
       THEN LET idx == CHOOSE i \in 1..Len(parts) :
                         /\ parts[i] = StatusSegment
                         /\ \A j \in 1..(i - 1) : parts[j] /= StatusSegment
            IN IF idx + 1 <= Len(parts)
                 THEN LET tweet_id_str == Split(parts[idx + 1], "?")[1]
                      IN IF IsDigit(tweet_id_str)
                           THEN IF IntRaises(tweet_id_str)
                                  THEN None
                                  ELSE Some(IntOf(tweet_id_str))
                           ELSE None
                 ELSE None
       ELSE None

\* tweet_id_to_datetime(tweet_id): None when utcfromtimestamp raises (a year
\* past datetime.max), else the datetime as [date (ordinal), ms (of the day)]
tweet_id_to_datetime(id) ==
  LET ms_sum == id.ms + EpochMsOfDay
      days == id.days + EpochDays + (ms_sum \div MsPerDay)
      ordinal == DateOrdinal(1970, 1, 1) + days
  IN IF ordinal > DateOrdinal(9999, 12, 31)
       THEN None
       ELSE Some([date |-> ordinal, ms |-> ms_sum % MsPerDay])

\* tweet_dt.isoformat(): the text of a datetime, a one-element string here
DatetimeIso(dt) == <<[date |-> IsoFormat(dt.date), ms |-> dt.ms]>>

\* tweet_date_ok once a timestamp is derived: lines 304-308
tweet_date_ok_OnOrBefore(tweet_dt, date) ==
  IF StrptimeFails(date) THEN TRUE ELSE tweet_dt.date <= Strptime(date)
tweet_date_ok_StrictOnBadDate(tweet_dt, date) ==
  IF StrptimeFails(date) THEN FALSE ELSE tweet_dt.date = Strptime(date)
tweet_date_ok(tweet_dt, date) ==
  IF StrptimeFails(date) THEN TRUE ELSE tweet_dt.date = Strptime(date)

\* x or y on strings: the first non-empty one
Or(x, y) == IF x /= <<>> THEN x ELSE y

\* the platform test of line 275
PointsToPlatform(l, source) ==
  Contains(XCom, l) \/ Contains(TwitterCom, l) \/ Contains(<<"X">>, source)

\* one pass of the loop body: the list with the TweetItem of r, or the empty
\* list when r is skipped
TweetItemsOf(r, date) ==
  LET l == Get(r.link, <<>>)
      source == Get(r.source, <<>>)
      snippet == Get(r.snippet, <<>>)
      title == Get(r.title, <<>>)
      id == ExtractTweetId(l)
      tweet_dt == IF id /= None THEN tweet_id_to_datetime(id[1]) ELSE None
      created_at_str == IF tweet_dt /= None THEN DatetimeIso(tweet_dt[1]) ELSE <<>>
      date_ok == IF tweet_dt /= None THEN tweet_date_ok(tweet_dt[1], date) ELSE TRUE
  IN IF ~ PointsToPlatform(l, source) THEN <<>>
     ELSE IF tweet_dt /= None /\ ~ date_ok THEN <<>>
     ELSE <<[user |-> Or(title, Or(source, <<"desconocido">>)),
             text |-> Or(snippet, title),
             created_at |-> created_at_str,
             url |-> l]>>

\* for r in organic: ... tweets.append(...)
RECURSIVE Tweets(_, _)
Tweets(organic, date) ==
  IF organic = <<>> THEN <<>>
  ELSE TweetItemsOf(Head(organic), date) \o Tweets(Tail(organic), date)

\* get_tweets after the credential check, given what requests.get did
TweetsResult(keyword, date, outcome) ==
  IF outcome.raised
    THEN HttpError(500, "Internal Server Error")
    ELSE IF UpstreamFailed(outcome.status_code)
      THEN HttpError(502, "Error SerpAPI")
      ELSE LET organic == Get(outcome.json, <<>>)
           IN HttpOk([keyword |-> keyword,
                      date |-> date,
                      tweets |-> Tweets(organic, date)])

\* ---- inputs of /news and /tweets

Keywords == {"Ecopetrol"}

\* raw articles of the news provider: complete, another one, and one with
\* every field missing
RawArticles ==
  { [title |-> Some("Ecopetrol sube"), url |-> Some("https://a.example/1"),
     sourceCountry |-> Some("Colombia"), language |-> Some("Spanish"),
     seendate |-> Some("20240115T120000Z")],
    [title |-> Some("Crudo cae"), url |-> Some("https://b.example/2"),
     sourceCountry |-> None, language |-> Some("Spanish"),
     seendate |-> Some("20240115T090000Z")],
    [title |-> None, url |-> None, sourceCountry |-> None, language |-> None,
     seendate |-> None] }

\* the sequences over S of length at most n
SeqUpTo(S, n) == UNION { [1..k -> S] : k \in 0..n }

\* what requests.get may do: raise, return a non-200 status, or return 200
\* with a JSON body whose list is missing or holds at most n items of S
HttpOutcomes(S, n) ==
  { [raised |-> TRUE, status_code |-> 0, json |-> None] }
    \cup { [raised |-> FALSE, status_code |-> c, json |-> None] : c \in {404, 503} }
    \cup { [raised |-> FALSE, status_code |-> 200, json |-> None] }
    \cup { [raised |-> FALSE, status_code |-> 200, json |-> Some(l)] :
             l \in SeqUpTo(S, n) }

\* links of organic results
\* https://x.com/u/status/1746864807736246277?s=20 : 2024-01-15 12:00:00.000 UTC, with a query string
LinkNoon ==
  <<"h", "t", "t", "p", "s", ":", "/", "/", "x", ".", "c", "o", "m", "/",
    "u", "/", "s", "t", "a", "t", "u", "s", "/", "1", "7", "4", "6", "8",
    "6", "4", "8", "0", "7", "7", "3", "6", "2", "4", "6", "2", "7", "7",
    "?", "s", "=", "2", "0">>
\* https://twitter.com/u/status/1746683613799251973 : 2024-01-14 23:59:59.999 UTC
LinkEve ==
  <<"h", "t", "t", "p", "s", ":", "/", "/", "t", "w", "i", "t", "t", "e",
    "r", ".", "c", "o", "m", "/", "u", "/", "s", "t", "a", "t", "u", "s",
    "/", "1", "7", "4", "6", "6", "8", "3", "6", "1", "3", "7", "9", "9",
    "2", "5", "1", "9", "7", "3">>
\* https://x.com/u/status/1746683613803446277 : 2024-01-15 00:00:00.000 UTC
LinkMidnight ==
  <<"h", "t", "t", "p", "s", ":", "/", "/", "x", ".", "c", "o", "m", "/",
    "u", "/", "s", "t", "a", "t", "u", "s", "/", "1", "7", "4", "6", "6",
    "8", "3", "6", "1", "3", "8", "0", "3", "4", "4", "6", "2", "7", "7">>
\* https://x.com/u : no status segment
LinkProfile ==
  <<"h", "t", "t", "p", "s", ":", "/", "/", "x", ".", "c", "o", "m", "/",
    "u">>
\* https://x.com/u/status/abc : a status segment followed by a word
LinkWord ==
  <<"h", "t", "t", "p", "s", ":", "/", "/", "x", ".", "c", "o", "m", "/",
    "u", "/", "s", "t", "a", "t", "u", "s", "/", "a", "b", "c">>
\* https://twitter.com/u/status/2000000000000000000000 : an identifier whose timestamp is past year 9999
LinkHuge ==
  <<"h", "t", "t", "p", "s", ":", "/", "/", "t", "w", "i", "t", "t", "e",
    "r", ".", "c", "o", "m", "/", "u", "/", "s", "t", "a", "t", "u", "s",
    "/", "2", "0", "0", "0", "0", "0", "0", "0", "0", "0", "0", "0", "0",
    "0", "0", "0", "0", "0", "0", "0", "0", "0">>
\* https://ex.org/a/status/1746864807736246277 : another site, with an identifier of 2024-01-15
LinkElsewhere ==
  <<"h", "t", "t", "p", "s", ":", "/", "/", "e", "x", ".", "o", "r", "g",
    "/", "a", "/", "s", "t", "a", "t", "u", "s", "/", "1", "7", "4", "6",
    "8", "6", "4", "8", "0", "7", "7", "3", "6", "2", "4", "6", "2", "7",
    "7">>

\* organic results of the search provider
OrganicResults ==
  { [link |-> Some(LinkNoon), source |-> Some(<<"X">>),
     snippet |-> Some(<<"s">>), title |-> Some(<<"t">>)],
    [link |-> Some(LinkEve), source |-> None,
     snippet |-> None, title |-> Some(<<"t">>)],
    [link |-> Some(LinkMidnight), source |-> None,
     snippet |-> Some(<<"s">>), title |-> None],
    [link |-> Some(LinkProfile), source |-> None,
     snippet |-> None, title |-> None],
    [link |-> Some(LinkWord), source |-> Some(<<"X">>),
     snippet |-> Some(<<"s">>), title |-> Some(<<"t">>)],
    [link |-> Some(LinkHuge), source |-> Some(<<"X">>),
     snippet |-> Some(<<"s">>), title |-> Some(<<"t">>)],
    [link |-> Some(LinkElsewhere), source |-> Some(<<"X", "D", "A">>),
     snippet |-> Some(<<"s">>), title |-> Some(<<"t">>)],
    [link |-> Some(LinkElsewhere), source |-> Some(<<"F", "o", "x">>),
     snippet |-> Some(<<"s">>), title |-> Some(<<"t">>)],
    [link |-> None, source |-> None, snippet |-> None, title |-> None] }

\* ---- links for the identifier extraction on its own

\* the digits of the identifier 1234567890123456789
ExampleIdDigits ==
  <<"1", "2", "3", "4", "5", "6", "7", "8", "9", "0", "1", "2", "3", "4", "5",
    "6", "7", "8", "9">>

\* the pieces a link is assembled from
LinkPieces ==
  { <<"/">>, <<"?">>, StatusSegment, <<"7">>, <<"0">>, <<"^2">>, ExampleIdDigits }

RECURSIVE Flatten(_)
Flatten(ps) == IF ps = <<>> THEN <<>> ELSE Head(ps) \o Flatten(Tail(ps))

\* every concatenation of at most MaxPieces pieces, the long identifier at
\* most once
Links ==
  { Flatten(ps) :
      ps \in { q \in SeqUpTo(LinkPieces, MaxPieces) :
                 Cardinality({ i \in DOMAIN q : q[i] = ExampleIdDigits }) <= 1 } }

\* ---- inputs of /stocks

\* date strings a caller sends: a Monday, the day after a leap day, and one
\* that does not parse
DateStrings ==
  { [y |-> 2024, m |-> 1, d |-> 15],
    [y |-> 2024, m |-> 3, d |-> 1],
    [y |-> 2024, m |-> 13, d |-> 40] }

Symbols == {"EC"}

\* dates of provider rows, in days relative to the requested date. The
\* provider is outside the program: a row dated after the requested date is
\* what the handler's own scan (and its second 404) guards against.
RowOffsets == {1, 0, -1, -3, -7, -30, -31}

\* the prices of one row
Bars ==
  { [open |-> 14, high |-> 16, low |-> 12, close |-> 15, volume |-> 900],
    [open |-> 11, high |-> 13, low |-> 10, close |-> 13, volume |-> 700],
    [open |-> 1, high |-> 2, low |-> 0, close |-> 0, volume |-> 50] }

Row(date, bar) ==
  [date |-> date, open |-> bar.open, high |-> bar.high, low |-> bar.low,
   close |-> bar.close, volume |-> bar.volume]

\* what yf.download may return for a request of target_date: at most MaxSeries
\* rows of distinct dates, in any order (the empty frame included)
PriceSeries(target_date) ==
  LET Rows == { Row(target_date + o, b) : o \in RowOffsets, b \in Bars }
  IN UNION { { s \in [1..k -> Rows] :
                 \A i, j \in 1..k : i /= j => s[i].date /= s[j].date }
             : k \in 0..MaxSeries }

\* get_stock up to the call of yf.download
GetStockBegin(symbol, date) ==
  /\ pc = "idle"
  /\ req' = [endpoint |-> "stocks", key |-> symbol, date |-> date]
  /\ IF StrptimeFails(date)
       THEN /\ resp' = HttpError(400, "Formato de fecha invalido. Usa YYYY-MM-DD.")
            /\ pc' = "done"
            /\ calls' = calls
       ELSE /\ calls' = calls + 1
            /\ pc' = "awaiting"
            /\ resp' = resp
  /\ UNCHANGED <<prov, link, tweet_id>>

\* get_stock from the return of yf.download to the response
GetStockReturn ==
  /\ pc = "awaiting"
  /\ req.endpoint = "stocks"
  /\ \E raw \in PriceSeries(Strptime(req.date)) :
       /\ prov' = Some(raw)
       /\ resp' = StockResult(req.key, Strptime(req.date), raw)
  /\ pc' = "done"
  /\ UNCHANGED <<req, calls, link, tweet_id>>

\* get_news up to requests.get
GetNewsBegin_CallBeforeValidation(keyword, date) ==
  /\ pc = "idle"
  /\ req' = [endpoint |-> "news", key |-> keyword, date |-> date]
  /\ calls' = calls + 1
  /\ IF StrptimeFails(date)
       THEN /\ resp' = HttpError(400, "Formato de fecha invalido. Usa YYYY-MM-DD.")
            /\ pc' = "done"
       ELSE /\ pc' = "awaiting"
            /\ resp' = resp
  /\ UNCHANGED <<prov, link, tweet_id>>
GetNewsBegin(keyword, date) ==
  /\ pc = "idle"
  /\ req' = [endpoint |-> "news", key |-> keyword, date |-> date]
  /\ IF StrptimeFails(date)
       THEN /\ resp' = HttpError(400, "Formato de fecha invalido. Usa YYYY-MM-DD.")
            /\ pc' = "done"
            /\ calls' = calls
       ELSE /\ calls' = calls + 1
            /\ pc' = "awaiting"
            /\ resp' = resp
  /\ UNCHANGED <<prov, link, tweet_id>>

\* get_news from the outcome of requests.get to the response
GetNewsReturn ==
  /\ pc = "awaiting"
  /\ req.endpoint = "news"
  /\ \E outcome \in HttpOutcomes(RawArticles, MaxArticles) :
       /\ prov' = Some(outcome)
       /\ resp' = NewsResult(req.key, req.date, outcome)
  /\ pc' = "done"
  /\ UNCHANGED <<req, calls, link, tweet_id>>

\* get_tweets up to requests.get
GetTweetsBegin(keyword, date) ==
  /\ pc = "idle"
  /\ req' = [endpoint |-> "tweets", key |-> keyword, date |-> date]
  /\ IF SERPAPI_API_KEY = ""
       THEN /\ resp' = HttpError(500, "Falta configurar SERPAPI_API_KEY en el servidor.")
            /\ pc' = "done"
            /\ calls' = calls
       ELSE /\ calls' = calls + 1
            /\ pc' = "awaiting"
            /\ resp' = resp
  /\ UNCHANGED <<prov, link, tweet_id>>

\* get_tweets from the outcome of requests.get to the response
GetTweetsReturn ==
  /\ pc = "awaiting"
  /\ req.endpoint = "tweets"
  /\ \E outcome \in HttpOutcomes(OrganicResults, MaxOrganic) :
       /\ prov' = Some(outcome)
       /\ resp' = TweetsResult(req.key, req.date, outcome)
  /\ pc' = "done"
  /\ UNCHANGED <<req, calls, link, tweet_id>>

Init ==
  /\ pc = "idle"
  /\ req = None
  /\ calls = 0
  /\ prov = None
  /\ resp = None
  /\ link = <<>>
  /\ tweet_id = None

Next ==
  \/ \E symbol \in Symbols, date \in DateStrings : GetStockBegin(symbol, date)
  \/ GetStockReturn
  \/ \E keyword \in Keywords, date \in DateStrings : GetNewsBegin(keyword, date)
  \/ GetNewsReturn
  \/ \E keyword \in Keywords, date \in DateStrings : GetTweetsBegin(keyword, date)
  \/ GetTweetsReturn

Spec == Init /\ [][Next]_vars

\* ---- the identifier extraction of get_tweets, applied to any link

InitExtract ==
  /\ pc = "link"
  /\ req = None
  /\ calls = 0
  /\ prov = None
  /\ resp = None
  /\ link \in Links
  /\ tweet_id = None

\* lines 282-295 on the link
ExtractStep ==
  /\ pc = "link"
  /\ tweet_id' = ExtractTweetId(link)
  /\ pc' = "extracted"
  /\ UNCHANGED <<req, calls, prov, resp, link>>

NextExtract == ExtractStep

SpecExtract == InitExtract /\ [][NextExtract]_vars


\* ------------------------------------------------- properties of /stocks

\* a /stocks request whose date parsed and whose provider call has returned
StocksAnswered ==
  pc = "done" /\ req.endpoint = "stocks" /\ prov /= None

RequestedDate == Strptime(req.date)

FetchedRows == { prov[1][i] : i \in 1..Len(prov[1]) }

RowsOnOrBefore(day) == { r \in FetchedRows : r.date <= day }

\* the entry with the greatest date <= day (there is one)
LatestRow(day) ==
  CHOOSE r \in RowsOnOrBefore(day) : \A q \in RowsOnOrBefore(day) : q.date <= r.date

\* C1: on /stocks with a date that parses and a non-empty fetched series, the
\* request succeeds iff some entry is dated <= the requested date; on success
\* close (non-null), open, high, low and volume are those of the entry with the
\* greatest date <= the requested date; with no such entry the answer is 404.
C1_TargetDayResolution ==
  (StocksAnswered /\ prov[1] /= <<>>) =>
    /\ (resp.status = 200) <=> (RowsOnOrBefore(RequestedDate) /= {})
    /\ (RowsOnOrBefore(RequestedDate) = {}) => (resp.status = 404 /\ resp.body = None)
    /\ (resp.status = 200) =>
         LET r == LatestRow(RequestedDate)
             b == resp.body[1]
         IN /\ b.close \in Int
            /\ b.close = r.close
            /\ b.open = Some(r.open)
            /\ b.high = Some(r.high)
            /\ b.low = Some(r.low)
            /\ b.volume = Some(r.volume)

\* C1 witness: a success where the provider's rows arrive out of date order,
\* the requested date has no row, and a later row exists that must be skipped.
C1_Witness ==
  /\ StocksAnswered
  /\ resp.status = 200
  /\ Len(prov[1]) = 3
  /\ prov[1][1].date > RequestedDate
  /\ prov[1][2].date = RequestedDate - 3
  /\ prov[1][3].date = RequestedDate - 7
  /\ resp.body[1].close = prov[1][2].close
  /\ prov[1][2].close /= prov[1][3].close
  /\ prov[1][2].close /= prov[1][1].close

\* C2: on success the returned date field is the date of the resolved target
\* trading day (the entry whose close is returned), which is <= the requested
\* date and differs from it whenever the requested date has no series entry.
C2_DateIsResolvedDay ==
  (StocksAnswered /\ resp.status = 200) =>
    LET r == LatestRow(RequestedDate)
        b == resp.body[1]
    IN /\ b.date = IsoFormat(r.date)
       /\ r.date <= RequestedDate
       /\ (\A q \in FetchedRows : q.date /= RequestedDate) => b.date /= req.date

\* the value the claim gives a variation field looking d days back
ExpectedVariation(field, d) ==
  LET c == resp.body[1].close
      P == RowsOnOrBefore(RequestedDate - d)
  IN IF P = {} THEN field = None
     ELSE LET p == LatestRow(RequestedDate - d).close
          IN IF p = 0 THEN field = None
             ELSE /\ field /= None
                  /\ field[1][2] /= 0
                  /\ field[1][1] * p = (c - p) * field[1][2]

\* C3: on success, for (var_day, 1), (var_week, 7), (var_month, 30): with p the
\* close of the latest entry dated <= requested date - d, the field is absent if
\* there is no such entry or p = 0, and otherwise equals (c - p) / p.
C3_Variations ==
  (StocksAnswered /\ resp.status = 200) =>
    /\ ExpectedVariation(resp.body[1].var_day, 1)
    /\ ExpectedVariation(resp.body[1].var_week, 7)
    /\ ExpectedVariation(resp.body[1].var_month, 30)

\* C3 witness: a Monday request with rows on the Monday, the Friday before and
\* a week before, the week-old close being zero: var_day is taken against
\* Friday's close, var_week is absent because p = 0, var_month because no row.
C3_Witness ==
  /\ StocksAnswered
  /\ resp.status = 200
  /\ req.date = [y |-> 2024, m |-> 1, d |-> 15]
  /\ { r.date - RequestedDate : r \in FetchedRows } = {0, -3, -7}
  /\ LatestRow(RequestedDate).close = 15
  /\ LatestRow(RequestedDate - 1).close = 13
  /\ LatestRow(RequestedDate - 7).close = 0
  /\ resp.body[1].var_day = Some(<<2, 13>>)
  /\ resp.body[1].var_week = None
  /\ resp.body[1].var_month = None

\* the sorted series and the positions the handler's scans resolve
SortedData == SortIndex(prov[1])
TargetIdx == ScanReversed(SortedData, Len(SortedData), RequestedDate)
RefIdx(d) == ref_idx(SortedData, RequestedDate, d)

TweetsAnswered ==
  /\ pc = "done"
  /\ req.endpoint = "tweets"
  /\ prov /= None
  /\ ~ prov[1].raised
  /\ prov[1].status_code = 200

OrganicReceived == Get(prov[1].json, <<>>)

\* r passes the platform filter
IsCandidate(r) == PointsToPlatform(Get(r.link, <<>>), Get(r.source, <<>>))

\* the timestamp derived from r's identifier, None when r has no identifier or
\* the conversion failed
DerivedTimestamp(r) ==
  LET id == ExtractTweetId(Get(r.link, <<>>))
  IN IF id = None THEN None ELSE tweet_id_to_datetime(id[1])

\* the claimed condition for dropping a candidate by date
DroppedByDate(r) ==
  /\ DerivedTimestamp(r) /= None
  /\ ~ StrptimeFails(req.date)
  /\ DerivedTimestamp(r)[1].date /= Strptime(req.date)

IsEmitted(r) == IsCandidate(r) /\ ~ DroppedByDate(r)

\* C4: a result that passes the platform filter is dropped by date filtering
\* iff a timestamp was derived from its identifier, the query date parses and
\* the timestamp's UTC date differs from the query date; a candidate with no
\* derivable timestamp is always emitted, with an empty created_at.
C4_DateFiltering ==
  TweetsAnswered =>
    LET expected == SelectSeq(OrganicReceived, IsEmitted)
        tweets == resp.body[1].tweets
    IN /\ resp.status = 200
       /\ Len(tweets) = Len(expected)
       /\ \A i \in 1..Len(expected) :
            /\ tweets[i].url = Get(expected[i].link, <<>>)
            /\ (DerivedTimestamp(expected[i]) = None) <=> (tweets[i].created_at = <<>>)

\* C4 witness: for 2024-01-15, a tweet of 2024-01-14 23:59:59.999 is dropped
\* and a tweet whose identifier converts to no timestamp is emitted with an
\* empty created_at.
C4_Witness ==
  /\ TweetsAnswered
  /\ req.date = [y |-> 2024, m |-> 1, d |-> 15]
  /\ Len(OrganicReceived) = 2
  /\ OrganicReceived[1].link = Some(LinkEve)
  /\ OrganicReceived[2].link = Some(LinkHuge)
  /\ DerivedTimestamp(OrganicReceived[1]) /= None
  /\ ExtractTweetId(LinkHuge) /= None
  /\ DerivedTimestamp(OrganicReceived[2]) = None
  /\ Len(resp.body[1].tweets) = 1
  /\ resp.body[1].tweets[1].url = LinkHuge
  /\ resp.body[1].tweets[1].created_at = <<>>

\* C5: for a date string that does not parse, /tweets filters nothing by date:
\* every result passing the platform filter is emitted and the response is a
\* success echoing the date string; the same string on /stocks yields 400.
C5_MalformedDate ==
  (pc = "done" /\ StrptimeFails(req.date)) =>
    /\ (req.endpoint = "stocks") => (resp.status = 400 /\ resp.body = None)
    /\ TweetsAnswered =>
         LET candidates == SelectSeq(OrganicReceived, IsCandidate)
             tweets == resp.body[1].tweets
         IN /\ resp.status = 200
            /\ resp.body[1].date = req.date
            /\ Len(tweets) = Len(candidates)
            /\ \A i \in 1..Len(candidates) :
                 tweets[i].url = Get(candidates[i].link, <<>>)

\* C5 witness: with the date 2024-13-40, two tweets of different days are both
\* emitted, each with its derived timestamp.
C5_Witness ==
  /\ TweetsAnswered
  /\ req.date = [y |-> 2024, m |-> 13, d |-> 40]
  /\ Len(OrganicReceived) = 2
  /\ OrganicReceived[1].link = Some(LinkEve)
  /\ OrganicReceived[2].link = Some(LinkNoon)
  /\ Len(resp.body[1].tweets) = 2
  /\ resp.body[1].tweets[1].created_at =
       <<[date |-> [y |-> 2024, m |-> 1, d |-> 14], ms |-> MsPerDay - 1]>>
  /\ resp.body[1].tweets[2].created_at =
       <<[date |-> [y |-> 2024, m |-> 1, d |-> 15], ms |-> MsPerDay \div 2]>>
  /\ resp.body[1].date = [y |-> 2024, m |-> 13, d |-> 40]

\* ------------------------------------- properties of the outbound call

\* C6: on /news and /tweets, when the outbound call times out or
\* fails at the transport level, the request ends with a 502 response.
C6_TransportFailureIs502 ==
  (/\ pc = "done"
   /\ req.endpoint \in {"news", "tweets"}
   /\ prov /= None
   /\ prov[1].raised)
    => resp.status = 502

\* the request was rejected before the handler reached its outbound call
RejectedBeforeCall ==
  \/ req.endpoint \in {"stocks", "news"} /\ StrptimeFails(req.date)
  \/ req.endpoint = "tweets" /\ SERPAPI_API_KEY = ""

\* C7 as stated: every request triggers exactly one outbound call, whatever
\* the input and the outcome (400, 404, 500 and 502 included).
C7_Original_ExactlyOneCall ==
  pc = "done" => calls = 1

\* C7 amended: a request never triggers more than one outbound call; it
\* triggers exactly one unless it is rejected before the call (a date that does
\* not parse on /stocks or /news, a missing credential on /tweets), and then
\* none.
C7_AtMostOneCall ==
  /\ calls \in {0, 1}
  /\ pc = "awaiting" => calls = 1
  /\ pc = "done" =>
       /\ calls = (IF RejectedBeforeCall THEN 0 ELSE 1)
       /\ (calls = 0) <=> (prov = None)
       /\ (calls = 0) => resp.status \in {400, 500}

\* C7 witness: a /news request answered 400 without any outbound call.
C7_Witness ==
  /\ pc = "done"
  /\ req.endpoint = "news"
  /\ resp.status = 400
  /\ calls = 0
  /\ prov = None

\* --------------------------------------------------- properties of /news

NewsAnswered ==
  /\ pc = "done"
  /\ req.endpoint = "news"
  /\ prov /= None
  /\ ~ prov[1].raised

\* C8: on /news with a date that parses, a provider status other than 200
\* yields 502; a 200 yields a 200 whose articles list has exactly one item per
\* raw article, in provider order (an empty list yields articles: []).
C8_NewsMapping ==
  NewsAnswered =>
    IF prov[1].status_code /= 200
      THEN resp.status = 502 /\ resp.body = None
      ELSE LET raw == Get(prov[1].json, <<>>)
               articles == resp.body[1].articles
           IN /\ resp.status = 200
              /\ Len(articles) = Len(raw)
              /\ \A i \in 1..Len(raw) :
                   /\ articles[i].title = Get(raw[i].title, "")
                   /\ articles[i].url = Get(raw[i].url, "")
                   /\ articles[i].source = raw[i].sourceCountry
                   /\ articles[i].language = raw[i].language
                   /\ articles[i].datetime = raw[i].seendate

\* C8 witness: a 200 with two different raw articles, the first with every
\* field missing, answered with the two items in that order.
C8_Witness ==
  /\ NewsAnswered
  /\ prov[1].status_code = 200
  /\ prov[1].json /= None
  /\ Len(prov[1].json[1]) = 2
  /\ prov[1].json[1][1].title = None
  /\ prov[1].json[1][2].title = Some("Crudo cae")
  /\ resp.status = 200
  /\ resp.body[1].articles[1].title = ""
  /\ resp.body[1].articles[2].title = "Crudo cae"

\* ------------------------------- properties of the identifier extraction

\* the positions of the '/' characters of the link, with both ends
SlashBounds == {0, Len(link) + 1} \cup { i \in 1..Len(link) : link[i] = "/" }

\* the segments of the link as pairs <<a, b>> of neighbouring bounds
SegmentBounds ==
  { ab \in SlashBounds \X SlashBounds :
      /\ ab[1] < ab[2]
      /\ \A k \in SlashBounds : ~ (ab[1] < k /\ k < ab[2]) }

SegmentText(ab) == SubSeq(link, ab[1] + 1, ab[2] - 1)

\* the part of a text before its first '?'
BeforeQuery(t) ==
  IF \E i \in 1..Len(t) : t[i] = "?"
    THEN SubSeq(t, 1, (CHOOSE i \in 1..Len(t) :
                         t[i] = "?" /\ \A j \in 1..(i - 1) : t[j] /= "?") - 1)
    ELSE t

AllDecimal(t) == t /= <<>> /\ \A i \in 1..Len(t) : t[i] \in {"0", "7", "1", "2", "3", "4", "5", "6", "8", "9"}

\* the `status` segments that are followed by a numeric segment
NumericAfter(ab) ==
  /\ SegmentText(ab) = StatusSegment
  /\ \E cd \in SegmentBounds :
       cd[1] = ab[2] /\ AllDecimal(BeforeQuery(SegmentText(cd)))

IsFirstStatus(ab) ==
  /\ SegmentText(ab) = StatusSegment
  /\ \A cd \in SegmentBounds : SegmentText(cd) = StatusSegment => ab[1] <= cd[1]

\* the digits after the status segment ab
DigitsAfter(ab) ==
  BeforeQuery(SegmentText(CHOOSE cd \in SegmentBounds : cd[1] = ab[2]))

\* the value of a short decimal string
RECURSIVE DecimalValue(_)
DecimalValue(t) ==
  IF t = <<>> THEN 0
  ELSE 10 * DecimalValue(SubSeq(t, 1, Len(t) - 1))
         + (CHOOSE n \in 0..9 : DecimalDigits[n + 1] = t[Len(t)])

\* the identifier is the integer value of the digit string t
IsValueOf(id, t) ==
  IF t = ExampleIdDigits
    THEN id = [days |-> 3406, ms |-> 65522167, lo |-> 2720021]
    ELSE Len(t) <= 6 => id = [days |-> 0, ms |-> 0, lo |-> DecimalValue(t)]

\* C9 as stated: an identifier is produced iff the link has a `status` segment
\* followed by a segment whose part before the first '?' is non-empty and all
\* digits.
C9_Original_AnyStatusSegment ==
  pc = "extracted" =>
    ((tweet_id /= None) <=> (\E ab \in SegmentBounds : NumericAfter(ab)))

\* C9 amended: an identifier is produced iff the FIRST `status` segment of the
\* link is followed by a segment whose part before the first '?' is non-empty
\* and all decimal digits, and it is then that digit string's integer value; a
\* link with no `status` segment, or whose first one is followed by no segment
\* or a non-numeric one, yields no identifier.
C9_FirstStatusSegment ==
  pc = "extracted" =>
    /\ (tweet_id /= None)
         <=> (\E ab \in SegmentBounds : IsFirstStatus(ab) /\ NumericAfter(ab))
    /\ \A ab \in SegmentBounds :
         (IsFirstStatus(ab) /\ NumericAfter(ab))
           => IsValueOf(tweet_id[1], DigitsAfter(ab))

\* C9 witness: the link /status/1234567890123456789? yields that identifier.
C9_Witness ==
  /\ pc = "extracted"
  /\ link = <<"/">> \o StatusSegment \o <<"/">> \o ExampleIdDigits \o <<"?">>
  /\ tweet_id = Some([days |-> 3406, ms |-> 65522167, lo |-> 2720021])

=============================================================================
